---- MODULE Spec2Model ----
(***************************************************************************)
(* A model of MissionAssistant.py: one run of main(args) over a tree of    *)
(* JPG files.  The state is the InspectImages object, the position of the  *)
(* run, the KML documents in memory, and what has reached the disk and the *)
(* log file.                                                               *)
(*                                                                         *)
(* Units.  Python floats are modelled by integers: coordinates are in      *)
(* arc-seconds (degrees * 3600), altitudes in metres, gimbal angles in     *)
(* tenths of a degree.  Python's None is the empty tuple <<>> and a        *)
(* present value v is <<v>>.                                               *)
(*                                                                         *)
(* Environment.  The folders exist and can be written: logging.basicConfig *)
(* and Kml.save do not fail.  Only the records the program itself logs are *)
(* in logfile; the imaging library's own DEBUG records are left out.       *)
(***************************************************************************)
EXTENDS Integers, Sequences, FiniteSets, TLC

VARIABLES
    args,            \* the dictionary returned by get_args()
    tree,            \* the .JPG/.jpg files os.walk finds under infolder, in order
    pc,              \* position of the run
    output_folder,   \* InspectImages.output_folder
    min_altitude,    \* InspectImages.min_altitude
    max_altitude,    \* InspectImages.max_altitude
    points,          \* InspectImages.points
    display_kml,     \* InspectImages.display_kml
    boundary_kml,    \* InspectImages.boundary_kml
    local_folder,    \* process(): the local variable output_folder
    level,           \* the root logger's level
    found_images,    \* process(): found_images
    i,               \* process(): index of the next file of the tree
    logfile,         \* records written to LOGFILE.txt
    disk,            \* the KML files written, with their content
    exit_code        \* the exit status of the run, None while it runs

vars == <<args, tree, pc, output_folder, min_altitude, max_altitude, points,
          display_kml, boundary_kml, local_folder, level, found_images, i,
          logfile, disk, exit_code>>

None == <<>>
Some(v) == <<v>>

(***************************************************************************)
(* Bounds of the model.                                                    *)
(***************************************************************************)
MaxImages == 3
MaxAlt == 4
MaxTurns == 2

(***************************************************************************)
(* Program constants.                                                      *)
(***************************************************************************)
NADIRLIMIT == -880
cardinals == 36
FullCircle == 3600

(***************************************************************************)
(* ImageMetadata                                                           *)
(***************************************************************************)
\* [degrees, minutes, seconds] to an angle (in arc-seconds).
convert_to_degrees(value) ==
    value[1] * 3600 + value[2] * 60 + value[3]

abs(x) == IF x < 0 THEN -x ELSE x

Raise(ex) ==
    [raised |-> ex, camera_longitude |-> 0, camera_latitude |-> 0,
     camera_altitude |-> 0, camera_pitch |-> None, camera_yaw |-> None]

\* The second try block: the XMP attributes of the rdf:Description element.
\* A missing GimbalPitchDegree raises KeyError before the yaw is read.
XmpPitch(img) ==
    IF img.xmp = None THEN None ELSE img.xmp[1].GimbalPitchDegree

XmpYaw(img) ==
    IF img.xmp = None THEN None
    ELSE IF img.xmp[1].GimbalPitchDegree = None THEN None
    ELSE img.xmp[1].GimbalYawDegree

\* ImageMetadata(imagename): the exception the constructor raises ("" for
\* none) and the fields of the object it builds.
ImageMetadata(img) ==
    IF ~img.identified THEN Raise("UnidentifiedImageError")
    ELSE IF img.exif = None THEN Raise("AttributeError")
    ELSE LET exif == img.exif[1] IN
    IF ~exif.Make THEN Raise("KeyError")
    ELSE IF ~exif.Model THEN Raise("KeyError")
    ELSE IF exif.GPSInfo = None THEN Raise("KeyError")
    ELSE LET gps_all == exif.GPSInfo[1]
             longitude == gps_all.GPSLongitude
             latitude == gps_all.GPSLatitude
         IN
    IF longitude = None THEN Raise("TypeError")
    ELSE IF Len(longitude[1]) < 3 THEN Raise("IndexError")
    ELSE IF latitude = None THEN Raise("TypeError")
    ELSE IF Len(latitude[1]) < 3 THEN Raise("IndexError")
    ELSE IF gps_all.GPSAltitude = None THEN Raise("TypeError")
    ELSE [raised |-> "",
          camera_longitude |->
              IF gps_all.GPSLongitudeRef = "W"
              THEN -abs(convert_to_degrees(longitude[1]))
              ELSE convert_to_degrees(longitude[1]),
          camera_latitude |->
              IF gps_all.GPSLatitudeRef = "S"
              THEN -abs(convert_to_degrees(latitude[1]))
              ELSE convert_to_degrees(latitude[1]),
          camera_altitude |-> gps_all.GPSAltitude[1],
          camera_pitch |-> XmpPitch(img),
          camera_yaw |-> XmpYaw(img)]

(***************************************************************************)
(* InspectImages                                                           *)
(***************************************************************************)
\* Python's float % by a positive divisor: the result is in [0, b), also
\* for a negative a.
PyMod(a, b) == a % b

\* degrees_to_cardinals with the half-bucket correction left out.
degrees_to_cardinals_nocorrection(degrees) ==
    (PyMod(degrees + FullCircle, FullCircle) * cardinals) \div FullCircle

\* degrees_to_cardinals, lines 171-174, on tenths of a degree.
degrees_to_cardinals(degrees) ==
    LET correction == FullCircle \div (2 * cardinals)
    IN  (PyMod(degrees + correction + FullCircle, FullCircle) * cardinals)
            \div FullCircle

\* The styles process() builds before the walk.
style_dict ==
    [k \in 0..(cardinals - 1) |->
        [icon |-> "track-0.png", heading |-> Some((k * FullCircle) \div cardinals)]]

shared_nadir_style == [icon |-> "placemark_circle.png", heading |-> None]

\* The style of a point whose style was never assigned.
default_style == [icon |-> "", heading |-> None]

ExceptClause_nocatchall(ex) ==
    IF ex = "UnidentifiedImageError" THEN "UnidentifiedImageError"
    ELSE IF ex = "KeyError" THEN "KeyError"
    ELSE ""

\* process(): the except clause of lines 272-282 that catches ex ("" when
\* none does and ex leaves process()).
ExceptClause(ex) ==
    IF ex = "UnidentifiedImageError" THEN "UnidentifiedImageError"
    ELSE IF ex = "KeyError" THEN "KeyError"
    ELSE "Exception"

\* The level a record needs to pass the root logger.
LevelNo(l) ==
    CASE l = "DEBUG" -> 10
      [] l = "INFO" -> 20
      [] l = "WARNING" -> 30

LoggerLevel_infowins(a) ==
    IF a.info THEN "INFO" ELSE IF a.debug THEN "DEBUG" ELSE "WARNING"

\* process(): the level of the root logger after the two setLevel calls.
LoggerLevel(a) ==
    IF a.debug THEN "DEBUG" ELSE IF a.info THEN "INFO" ELSE "WARNING"

\* logger.debug(msg): the log file after the call.
Log(file, lvl, levelname, msg, image) ==
    IF LevelNo(levelname) >= LevelNo(lvl)
    THEN Append(file, [levelname |-> levelname, msg |-> msg, image |-> image])
    ELSE file

\* process(): is_nadir after the classification of lines 263-271.
IsNadir_inclusive(md) ==
    md.camera_pitch # None /\ md.camera_pitch[1] <= NADIRLIMIT

IsNadir(md) ==
    md.camera_pitch # None /\ md.camera_pitch[1] < NADIRLIMIT

\* process(): the type filter of lines 284-289.
PassesType(t, is_nadir) ==
    IF t = "N" THEN is_nadir
    ELSE IF t = "O" THEN ~is_nadir
    ELSE TRUE

PassesAltitude_inclusive(lo, hi, alt) == lo <= alt /\ alt <= hi

\* process(): the altitude filter of line 291.
PassesAltitude(lo, hi, alt) == lo < alt /\ alt < hi

StyleKey_nadironly(md, is_nadir) ==
    IF is_nadir THEN None
    ELSE IF md.camera_yaw = None THEN Some(0)
    ELSE Some(degrees_to_cardinals(md.camera_yaw[1]))

\* process(): which style line 296-299 picks: None for the nadir style, else
\* the key looked up in style_dict.
StyleKey(md, is_nadir) ==
    IF is_nadir \/ md.camera_yaw = None THEN None
    ELSE Some(degrees_to_cardinals(md.camera_yaw[1]))

(***************************************************************************)
(* scipy.spatial.ConvexHull in two dimensions                              *)
(***************************************************************************)
Cross(o, a, b) ==
    (a[1] - o[1]) * (b[2] - o[2]) - (a[2] - o[2]) * (b[1] - o[1])

Dist2(a, b) ==
    (a[1] - b[1]) * (a[1] - b[1]) + (a[2] - b[2]) * (a[2] - b[2])

PointSet(pts) == {pts[k] : k \in 1..Len(pts)}

\* Qhull raises QhullError when the input has no three points that span
\* the plane (fewer than three points, coincident or collinear points).
Degenerate(pts) ==
    \A a, b, c \in PointSet(pts) : Cross(a, b, c) = 0

\* The lowest of the leftmost points: a vertex of the hull.
Leftmost(P) ==
    CHOOSE p \in P : \A q \in P :
        p[1] < q[1] \/ (p[1] = q[1] /\ p[2] <= q[2])

\* The vertex after cur, counter-clockwise: every other point is to the
\* left of cur -> q, or on it and no farther than q.
NextVertex(P, cur) ==
    CHOOSE q \in P \ {cur} : \A r \in P \ {cur, q} :
        \/ Cross(cur, q, r) > 0
        \/ Cross(cur, q, r) = 0 /\ Dist2(cur, r) <= Dist2(cur, q)

RECURSIVE March(_, _, _, _)
March(P, start, cur, acc) ==
    LET q == NextVertex(P, cur)
    IN  IF q = start THEN acc ELSE March(P, start, q, Append(acc, q))

FirstIndex(pts, p) ==
    CHOOSE k \in 1..Len(pts) : pts[k] = p /\ \A j \in 1..(k - 1) : pts[j] # p

\* hull.vertices: the indices of the hull's vertices in counter-clockwise
\* order, starting at Leftmost.
HullVertices(pts) ==
    LET P == PointSet(pts)
        s == Leftmost(P)
        ring == March(P, s, s, <<s>>)
    IN  [k \in 1..Len(ring) |-> FirstIndex(pts, ring[k])]

\* Qhull does not fix the vertex the order starts at.
Rotate(s, r) ==
    [k \in 1..Len(s) |-> s[((k + r - 1) % Len(s)) + 1]]

HullCoords_open(pts, vertices) ==
    [k \in 1..Len(vertices) |-> <<pts[vertices[k]][1], pts[vertices[k]][2]>>]

\* CreateHull, lines 185-186: the ring of the polygon.
HullCoords(pts, vertices) ==
    LET coords == [k \in 1..Len(vertices) |->
                      <<pts[vertices[k]][1], pts[vertices[k]][2]>>]
    IN  Append(coords, coords[1])

Kml == [folder |-> <<>>, polygons |-> <<>>]

NewPolygon(kml, coords) ==
    [kml EXCEPT !.polygons = Append(@, [name |-> "Convex Hull",
                                         outerboundaryis |-> coords])]

\* kml.save(path): the file at path is replaced.
Save(d, folder, name, kml) ==
    {f \in d : f.path # <<folder, name>>}
        \cup {[path |-> <<folder, name>>, content |-> kml]}

(***************************************************************************)
(* The run: main(args), process() and CreateHull()                         *)
(***************************************************************************)
\* process() up to the walk, lines 200-252.
Process_Setup ==
    /\ pc = "main"
    /\ local_folder' = IF output_folder = None THEN Some(args.infolder)
                       ELSE output_folder
    /\ min_altitude' = IF max_altitude < min_altitude THEN max_altitude
                       ELSE min_altitude
    /\ max_altitude' = IF max_altitude < min_altitude THEN min_altitude
                       ELSE max_altitude
    /\ level' = LoggerLevel(args)
    /\ logfile' = <<>>
    /\ display_kml' = Some(Kml)
    /\ found_images' = FALSE
    /\ i' = 1
    /\ pc' = "walk"
    /\ UNCHANGED <<args, tree, output_folder, points, boundary_kml, disk,
                   exit_code>>

\* One pass of the loop over the files, lines 260-302.  The field image of a
\* point names the file it came from; it is not part of the KML.
Process_Image ==
    /\ pc = "walk"
    /\ i <= Len(tree)
    /\ found_images' = TRUE
    /\ i' = i + 1
    /\ LET imagemetadata == ImageMetadata(tree[i])
           is_nadir == IsNadir(imagemetadata)
           key == StyleKey(imagemetadata, is_nadir)
           coords == <<imagemetadata.camera_longitude,
                       imagemetadata.camera_latitude>>
           pnt == [name |-> imagemetadata.camera_altitude,
                   coords |-> coords,
                   style |-> IF key = None THEN shared_nadir_style
                             ELSE IF key[1] \in DOMAIN style_dict
                             THEN style_dict[key[1]]
                             ELSE default_style,
                   image |-> i]
           clause == ExceptClause(imagemetadata.raised)
       IN  IF imagemetadata.raised # "" /\ clause = ""
           THEN /\ pc' = "exit"
                /\ exit_code' = Some(1)
                /\ UNCHANGED <<logfile, points, display_kml>>
           ELSE IF imagemetadata.raised # "" /\ clause = "UnidentifiedImageError"
           THEN /\ logfile' = Log(logfile, level, "DEBUG", "Unable to inspect", i)
                /\ UNCHANGED <<points, display_kml, pc, exit_code>>
           ELSE IF imagemetadata.raised # "" /\ clause = "KeyError"
           THEN /\ logfile' = Log(logfile, level, "DEBUG",
                                  "Unsupported image format", i)
                /\ UNCHANGED <<points, display_kml, pc, exit_code>>
           ELSE IF imagemetadata.raised # ""
           THEN UNCHANGED <<logfile, points, display_kml, pc, exit_code>>
           ELSE IF ~PassesType(args.type, is_nadir)
           THEN UNCHANGED <<logfile, points, display_kml, pc, exit_code>>
           ELSE IF ~PassesAltitude(min_altitude, max_altitude,
                                   imagemetadata.camera_altitude)
           THEN UNCHANGED <<logfile, points, display_kml, pc, exit_code>>
           ELSE /\ points' = Append(points, coords)
                /\ display_kml' =
                       Some([display_kml[1] EXCEPT !.folder = Append(@, pnt)])
                /\ IF key # None /\ key[1] \notin DOMAIN style_dict
                   THEN pc' = "exit" /\ exit_code' = Some(1)
                   ELSE UNCHANGED <<pc, exit_code>>
                /\ UNCHANGED logfile
    /\ UNCHANGED <<args, tree, output_folder, min_altitude, max_altitude,
                   boundary_kml, local_folder, level, disk>>

\* The end of the walk, lines 304-306.
Process_End ==
    /\ pc = "walk"
    /\ i > Len(tree)
    /\ IF found_images = FALSE
       THEN pc' = "exit" /\ exit_code' = Some(0)
       ELSE pc' = "save_images" /\ UNCHANGED exit_code
    /\ UNCHANGED <<args, tree, output_folder, min_altitude, max_altitude,
                   points, display_kml, boundary_kml, local_folder, level,
                   found_images, i, logfile, disk>>

Main_SaveImages_deferred ==
    /\ pc = "save_images"
    /\ IF output_folder = None
       THEN pc' = "exit" /\ exit_code' = Some(1)
       ELSE pc' = "create_hull" /\ UNCHANGED exit_code
    /\ UNCHANGED <<args, tree, output_folder, min_altitude, max_altitude,
                   points, display_kml, boundary_kml, local_folder, level,
                   found_images, i, logfile, disk>>

\* main, lines 312-313: os.path.join raises TypeError on a None folder.
Main_SaveImages ==
    /\ pc = "save_images"
    /\ IF output_folder = None
       THEN pc' = "exit" /\ exit_code' = Some(1) /\ UNCHANGED disk
       ELSE /\ disk' = Save(disk, output_folder[1], "Images.kml", display_kml[1])
            /\ pc' = "create_hull"
            /\ UNCHANGED exit_code
    /\ UNCHANGED <<args, tree, output_folder, min_altitude, max_altitude,
                   points, display_kml, boundary_kml, local_folder, level,
                   found_images, i, logfile>>

\* main, line 315: CreateHull, lines 176-198.  Line 177 leaves an empty list
\* in boundary_kml when ConvexHull raises.
CreateHull ==
    /\ pc = "create_hull"
    /\ IF Degenerate(points)
       THEN /\ pc' = "exit"
            /\ exit_code' = Some(1)
            /\ boundary_kml' = Some(<<>>)
            /\ UNCHANGED display_kml
       ELSE \E r \in 0..(Len(HullVertices(points)) - 1) :
            LET coords == HullCoords(points, Rotate(HullVertices(points), r))
            IN  /\ boundary_kml' = Some(NewPolygon(Kml, coords))
                /\ display_kml' = Some(NewPolygon(display_kml[1], coords))
                /\ pc' = "save_boundary"
                /\ UNCHANGED exit_code
    /\ UNCHANGED <<args, tree, output_folder, min_altitude, max_altitude,
                   points, local_folder, level, found_images, i, logfile, disk>>

\* main, lines 317-318.
Main_SaveBoundary ==
    /\ pc = "save_boundary"
    /\ disk' = Save(disk, output_folder[1], "Boundary.kml", boundary_kml[1])
    /\ pc' = "save_images_and_boundary"
    /\ UNCHANGED <<args, tree, output_folder, min_altitude, max_altitude,
                   points, display_kml, boundary_kml, local_folder, level,
                   found_images, i, logfile, exit_code>>

\* main, lines 320-323.
Main_SaveImagesAndBoundary ==
    /\ pc = "save_images_and_boundary"
    /\ disk' = Save(disk, output_folder[1], "Images_and_Boundary.kml",
                    display_kml[1])
    /\ pc' = "done"
    /\ exit_code' = Some(0)
    /\ UNCHANGED <<args, tree, output_folder, min_altitude, max_altitude,
                   points, display_kml, boundary_kml, local_folder, level,
                   found_images, i, logfile>>

Next ==
    \/ Process_Setup
    \/ Process_Image
    \/ Process_End
    \/ Main_SaveImages
    \/ CreateHull
    \/ Main_SaveBoundary
    \/ Main_SaveImagesAndBoundary

(***************************************************************************)
(* Inputs: the command line and the files                                   *)
(***************************************************************************)
GPSInfo(lon, lat, alt) ==
    [GPSLongitudeRef |-> "E", GPSLongitude |-> Some(<<lon, 0, 0>>),
     GPSLatitudeRef |-> "N", GPSLatitude |-> Some(<<lat, 0, 0>>),
     GPSAltitude |-> Some(alt)]

\* A JPG file with complete EXIF data and the XMP block xmp.
Image(lon, lat, alt, xmp) ==
    [identified |-> TRUE,
     exif |-> Some([Make |-> TRUE, Model |-> TRUE,
                    GPSInfo |-> Some(GPSInfo(lon, lat, alt))]),
     xmp |-> xmp]

Xmp(pitch, yaw) ==
    Some([GimbalPitchDegree |-> pitch, GimbalYawDegree |-> yaw])

Defects ==
    {"unidentified", "no_exif", "no_make", "no_model", "no_gpsinfo",
     "no_longitude", "short_longitude", "no_latitude", "short_latitude",
     "no_altitude"}

\* A JPG file whose EXIF data cannot be read, for one reason.
Defective(defect) ==
    LET good == Image(0, 0, 2, None)
        exif == good.exif[1]
        gps == exif.GPSInfo[1]
        WithGps(g) == [good EXCEPT !.exif = Some([exif EXCEPT !.GPSInfo = Some(g)])]
    IN  CASE defect = "unidentified" -> [good EXCEPT !.identified = FALSE]
          [] defect = "no_exif" -> [good EXCEPT !.exif = None]
          [] defect = "no_make" ->
                 [good EXCEPT !.exif = Some([exif EXCEPT !.Make = FALSE])]
          [] defect = "no_model" ->
                 [good EXCEPT !.exif = Some([exif EXCEPT !.Model = FALSE])]
          [] defect = "no_gpsinfo" ->
                 [good EXCEPT !.exif = Some([exif EXCEPT !.GPSInfo = None])]
          [] defect = "no_longitude" ->
                 WithGps([gps EXCEPT !.GPSLongitude = None])
          [] defect = "short_longitude" ->
                 WithGps([gps EXCEPT !.GPSLongitude = Some(<<0, 0>>)])
          [] defect = "no_latitude" ->
                 WithGps([gps EXCEPT !.GPSLatitude = None])
          [] defect = "short_latitude" ->
                 WithGps([gps EXCEPT !.GPSLatitude = Some(<<0, 0>>)])
          [] defect = "no_altitude" ->
                 WithGps([gps EXCEPT !.GPSAltitude = None])

\* The state when main(args) is entered with the files of the tree on disk.
InitWith(Args) ==
    /\ args \in Args
    /\ pc = "main"
    /\ output_folder = args.outfolder
    /\ min_altitude = args.alt[1]
    /\ max_altitude = args.alt[2]
    /\ points = <<>>
    /\ display_kml = None
    /\ boundary_kml = None
    /\ local_folder = None
    /\ level = "WARNING"
    /\ found_images = FALSE
    /\ i = 1
    /\ logfile = <<>>
    /\ disk = {}
    /\ exit_code = None

\* The k-th site of a survey whose sites are in general position (no three
\* on a line), in degrees.
Site(k) == <<k, k * k>>

\* The tree holds at most n files, each drawn from Images.
AnyTree(Images, n) ==
    \E m \in 0..n : tree \in [1..m -> Images]

\* The tree holds at most n files; the k-th is at Site(k) and has an altitude
\* and an XMP block drawn from Choices.
SurveyTree(Choices, n) ==
    \E m \in 0..n : \E f \in [1..m -> Choices] :
        tree = [k \in 1..m |-> Image(Site(k)[1], Site(k)[2], f[k].alt, f[k].xmp)]

\* Runs that differ in the flags, the output folder and the defects of the
\* files.
PipelineArgs ==
    [type : {"A"}, alt : {<<1, MaxAlt>>}, debug : BOOLEAN, info : BOOLEAN,
     infolder : {"in"}, outfolder : {None, Some("out")}]

PipelineImages ==
    {Defective(d) : d \in Defects}
        \cup {Image(x, y, 2, None) : x \in 0..1, y \in 0..1}

Init == InitWith(PipelineArgs) /\ AnyTree(PipelineImages, MaxImages)

Spec == Init /\ [][Next]_vars

\* Runs that differ in the type, the altitude range and the altitudes.
AltArgs ==
    [type : {"N", "O", "A"}, alt : {<<1, MaxAlt - 1>>, <<MaxAlt - 1, 1>>},
     debug : {FALSE}, info : {FALSE}, infolder : {"in"},
     outfolder : {Some("out")}]

AltChoices ==
    [alt : 0..MaxAlt, xmp : {None, Xmp(Some(-900), Some(0))}]

InitAlt == InitWith(AltArgs) /\ SurveyTree(AltChoices, MaxImages)

SpecAlt == InitAlt /\ [][Next]_vars

\* Runs that differ in the type and the gimbal attributes.
TypeArgs ==
    [type : {"N", "O", "A"}, alt : {<<1, MaxAlt>>}, debug : {FALSE},
     info : {FALSE}, infolder : {"in"}, outfolder : {Some("out")}]

TypeChoices ==
    [alt : {2},
     xmp : {None} \cup
           {Xmp(p, y) : p \in {None, Some(NADIRLIMIT - 1), Some(NADIRLIMIT)},
                        y \in {None, Some(900)}}]

InitType == InitWith(TypeArgs) /\ SurveyTree(TypeChoices, MaxImages)

SpecType == InitType /\ [][Next]_vars

\* Runs that differ in where the images were taken: anywhere on a grid of
\* three by three degrees, several at one place included.
HullArgs ==
    [type : {"A"}, alt : {<<1, MaxAlt>>}, debug : {FALSE}, info : {FALSE},
     infolder : {"in"}, outfolder : {Some("out")}]

HullImages ==
    {Image(x, y, 2, None) : x \in 0..2, y \in 0..2}

InitHull == InitWith(HullArgs) /\ AnyTree(HullImages, MaxImages + 1)

SpecHull == InitHull /\ [][Next]_vars

\* Runs that differ in the yaw of the first image.
Yaws == (-MaxTurns * FullCircle)..(MaxTurns * FullCircle)

YawTrees ==
    {<<Image(0, 0, 2, Xmp(Some(0), Some(d))),
       Image(1, 0, 2, Xmp(Some(0), Some(0))),
       Image(0, 1, 2, Xmp(Some(0), Some(0)))>> : d \in Yaws}

InitYaw == InitWith(HullArgs) /\ tree \in YawTrees

SpecYaw == InitYaw /\ [][Next]_vars

(***************************************************************************)
(* What the files of the tree hold, read off the files themselves           *)
(***************************************************************************)
Folder == IF display_kml = None THEN <<>> ELSE display_kml[1].folder

Processed == 1..(i - 1)

Contributes(k) == \E n \in 1..Len(Folder) : Folder[n].image = k

Logged(k) == \E n \in 1..Len(logfile) : logfile[n].image = k

FileUnidentified(img) == ~img.identified

FileNoExif(img) == img.identified /\ img.exif = None

FileKeyMissing(img) ==
    /\ img.identified
    /\ img.exif # None
    /\ (~img.exif[1].Make \/ ~img.exif[1].Model \/ img.exif[1].GPSInfo = None)

FileGpsBroken(img) ==
    /\ img.identified
    /\ img.exif # None
    /\ img.exif[1].GPSInfo # None
    /\ LET g == img.exif[1].GPSInfo[1]
       IN  \/ g.GPSLongitude = None
           \/ g.GPSLatitude = None
           \/ g.GPSAltitude = None
           \/ (g.GPSLongitude # None /\ Len(g.GPSLongitude[1]) < 3)
           \/ (g.GPSLatitude # None /\ Len(g.GPSLatitude[1]) < 3)

FileUnreadable(img) ==
    \/ FileUnidentified(img)
    \/ FileNoExif(img)
    \/ FileKeyMissing(img)
    \/ FileGpsBroken(img)

FileAltitude(img) == img.exif[1].GPSInfo[1].GPSAltitude[1]

\* (longitude, latitude) of a file with east and north references, in
\* arc-seconds.
FileCoords(img) ==
    LET g == img.exif[1].GPSInfo[1]
        lon == g.GPSLongitude[1]
        lat == g.GPSLatitude[1]
    IN  <<3600 * lon[1] + 60 * lon[2] + lon[3],
          3600 * lat[1] + 60 * lat[2] + lat[3]>>

FilePitchRead(img) ==
    img.xmp # None /\ img.xmp[1].GimbalPitchDegree # None

FileNadir(img) ==
    FilePitchRead(img) /\ img.xmp[1].GimbalPitchDegree[1] < NADIRLIMIT

FileYawRead(img) ==
    FilePitchRead(img) /\ img.xmp[1].GimbalYawDegree # None

FileYaw(img) == img.xmp[1].GimbalYawDegree[1]

Lo == IF args.alt[1] <= args.alt[2] THEN args.alt[1] ELSE args.alt[2]

Hi == IF args.alt[1] <= args.alt[2] THEN args.alt[2] ELSE args.alt[1]

FileInRange(img) == Lo < FileAltitude(img) /\ FileAltitude(img) < Hi

FilePassesType(img) ==
    \/ args.type = "A"
    \/ (args.type = "N" /\ FileNadir(img))
    \/ (args.type = "O" /\ ~FileNadir(img))

Written == {f.path : f \in disk}

File(name) == (CHOOSE f \in disk : f.path[2] = name).content

HullComputed == pc \in {"save_boundary", "save_images_and_boundary", "done"}

HullFailed == boundary_kml = Some(<<>>)

KmlNames == {"Images.kml", "Boundary.kml", "Images_and_Boundary.kml"}

(***************************************************************************)
(* The claims                                                               *)
(***************************************************************************)
\* C1: when outfolder is omitted and the accepted points have a hull, the
\* run ends with success and the three KML files are in the input folder.
C1_DefaultOutputFolder ==
    (/\ args.outfolder = None
     /\ pc \in {"exit", "done"}
     /\ ~Degenerate(points))
        => /\ pc = "done"
           /\ exit_code = Some(0)
           /\ \A name \in KmlNames : <<args.infolder, name>> \in Written

\* C2: a readable image that passes the type filter contributes a point and
\* a placemark iff its altitude is strictly between the smaller and the
\* larger of the two -a values, whatever their order.
C2_AltitudeFilter ==
    /\ Len(points) = Len(Folder)
    /\ \A n \in 1..Len(Folder) :
           points[n] = FileCoords(tree[Folder[n].image])
    /\ \A k \in Processed :
           (~FileUnreadable(tree[k]) /\ FilePassesType(tree[k]))
               => (Contributes(k) <=> FileInRange(tree[k]))

\* C2 witness: the two values were given larger first; an image at the lower
\* value and one at the upper value were left out and one between them was
\* taken.
C2_Witness ==
    /\ args.alt[1] > args.alt[2]
    /\ i > Len(tree)
    /\ \E a, b, c \in Processed :
           /\ FilePassesType(tree[a]) /\ FileAltitude(tree[a]) = Lo
           /\ ~Contributes(a)
           /\ FilePassesType(tree[b]) /\ FileAltitude(tree[b]) = Hi
           /\ ~Contributes(b)
           /\ Contributes(c)

\* C3: an image whose EXIF data cannot be read contributes nothing and does
\* not end the walk: after any number of files, the placemarks and points
\* are those of the readable files that pass the filters, in order, as if
\* the unreadable files were not there.
C3_FailuresSkipped ==
    LET Takes(k) == /\ ~FileUnreadable(tree[k])
                    /\ FilePassesType(tree[k])
                    /\ FileInRange(tree[k])
        taken == SelectSeq([k \in 1..(i - 1) |-> k], Takes)
    IN  /\ [n \in 1..Len(Folder) |-> Folder[n].image] = taken
        /\ points = [n \in 1..Len(taken) |-> FileCoords(tree[taken[n]])]
        /\ (pc \in {"main", "walk"} \/ i > Len(tree))

\* C3 witness: a walk over three files ended; the second was unreadable and
\* the first and the third contributed.
C3_Witness ==
    /\ Len(tree) = 3
    /\ i > Len(tree)
    /\ FileGpsBroken(tree[2])
    /\ Contributes(1)
    /\ Contributes(3)
    /\ Len(points) = 2

\* C4 (as stated): every skipped unreadable image has a record of level
\* WARNING or above in the log file, whatever -d and -i are.
C4_Original ==
    \A k \in Processed :
        FileUnreadable(tree[k])
            => \E n \in 1..Len(logfile) :
                   /\ logfile[n].image = k
                   /\ LevelNo(logfile[n].levelname) >= LevelNo("WARNING")

\* C4 (amended): the run writes a record about a skipped image exactly when
\* -d is set and the image was unidentified or lacked Make, Model or
\* GPSInfo; the record has level DEBUG.  No other failure and no other flag
\* setting puts a record about the image in the log file.
C4_DebugRecordsOnly ==
    /\ \A n \in 1..Len(logfile) :
           /\ logfile[n].levelname = "DEBUG"
           /\ logfile[n].image \in Processed
    /\ \A k \in Processed :
           Logged(k) <=>
               (args.debug /\ (FileUnidentified(tree[k]) \/ FileKeyMissing(tree[k])))

\* C4 witness: with -d and -i, an unidentified image has its record and an
\* image without a latitude was skipped with none.
C4_Witness ==
    /\ args.debug
    /\ args.info
    /\ \E a, b \in Processed :
           /\ FileUnidentified(tree[a]) /\ Logged(a)
           /\ FileGpsBroken(tree[b]) /\ ~Logged(b) /\ ~Contributes(b)

\* C5 (as stated): no KML file is written before the hull has been computed,
\* and a run whose hull computation fails leaves no KML file.
C5_Original ==
    /\ Written # {} => HullComputed
    /\ HullFailed => Written = {}

\* C5 (amended): Boundary.kml and Images_and_Boundary.kml are written only
\* after the hull has been computed; Images.kml is written before the hull
\* computation, so a run whose hull computation fails leaves Images.kml, and
\* only it, in the output folder.
C5_BoundaryAfterHull ==
    /\ \A path \in Written :
           path[2] \in {"Boundary.kml", "Images_and_Boundary.kml"} => HullComputed
    /\ pc = "create_hull" => Written = {<<output_folder[1], "Images.kml">>}
    /\ HullFailed =>
           /\ pc = "exit"
           /\ exit_code = Some(1)
           /\ Written = {<<output_folder[1], "Images.kml">>}

\* C5 witness: the hull computation failed on two accepted points and
\* Images.kml is on disk.
C5_Witness ==
    /\ HullFailed
    /\ Len(points) = 2
    /\ <<"out", "Images.kml">> \in Written

\* C6: with -t N exactly the images whose pitch was read and is below
\* NADIRLIMIT contribute, with -t O exactly the others (images without a
\* pitch included), and with -t A every image does.
C6_TypeFilter ==
    \A k \in Processed :
        (~FileUnreadable(tree[k]) /\ FileInRange(tree[k]))
            => (Contributes(k) <=>
                   \/ args.type = "A"
                   \/ (args.type = "N" /\ FileNadir(tree[k]))
                   \/ (args.type = "O" /\ ~FileNadir(tree[k])))

\* C6 witness: with -t O an image whose pitch equals NADIRLIMIT and one
\* without a pitch contributed, and one with a pitch below it did not.
C6_Witness ==
    /\ args.type = "O"
    /\ \E a, b, c \in Processed :
           /\ FilePitchRead(tree[a])
           /\ tree[a].xmp[1].GimbalPitchDegree[1] = NADIRLIMIT
           /\ Contributes(a)
           /\ ~FilePitchRead(tree[b]) /\ Contributes(b)
           /\ FileNadir(tree[c]) /\ ~Contributes(c)

\* C7: with -i, every image whose metadata was read has a record of level
\* INFO in the log file.
C7_InfoRecords ==
    args.info =>
        \A k \in Processed :
            ~FileUnreadable(tree[k])
                => \E n \in 1..Len(logfile) :
                       /\ logfile[n].image = k
                       /\ logfile[n].levelname = "INFO"

Heading(k) == (k * FullCircle) \div cardinals

\* The angle between two directions, in 0..FullCircle/2.
CircDist(a, b) ==
    LET m == (a - b) % FullCircle
    IN  IF m <= FullCircle - m THEN m ELSE FullCircle - m

\* Heading(k) is a heading nearest to d, and the one above d when two are.
NearestBucket(k, d) ==
    /\ \A j \in 0..(cardinals - 1) :
           CircDist(d, Heading(k)) <= CircDist(d, Heading(j))
    /\ \A j \in (0..(cardinals - 1)) \ {k} :
           CircDist(d, Heading(j)) = CircDist(d, Heading(k))
               => (Heading(k) - d) % FullCircle = CircDist(d, Heading(k))

\* C9: for every yaw, below zero and above a full circle included, the
\* placemark of an oblique image gets style_dict[k] for a k in
\* 0..cardinals-1 whose heading is the nearest to the yaw (the higher one
\* from halfway), and the lookup never ends the run.
C9_NearestBucket ==
    /\ exit_code # Some(1)
    /\ \A n \in 1..Len(Folder) :
           LET img == tree[Folder[n].image]
           IN  (FileYawRead(img) /\ ~FileNadir(img))
                   => \E k \in 0..(cardinals - 1) :
                          /\ Folder[n].style = style_dict[k]
                          /\ NearestBucket(k, FileYaw(img))

\* C9 witness: a yaw more than a full circle below zero and halfway between
\* the last heading and the first got the first.
C9_Witness ==
    /\ pc = "done"
    /\ FileYaw(tree[1]) = -FullCircle - (FullCircle \div (2 * cardinals))
    /\ Folder[1].image = 1
    /\ Folder[1].style = style_dict[0]

\* C10 (as stated): a placemark has the nadir style iff its image is
\* classified nadir.
C10_Original ==
    \A n \in 1..Len(Folder) :
        Folder[n].style = shared_nadir_style
            <=> FileNadir(tree[Folder[n].image])

\* C10 (amended): a placemark has the nadir style iff its image is
\* classified nadir or its yaw was not read, and a directional style
\* otherwise; so -t N emits only nadir-styled placemarks, and -t O emits a
\* directional placemark for every image whose yaw was read and a
\* nadir-styled one for every image whose yaw was not.
C10_StyleByYaw ==
    \A n \in 1..Len(Folder) :
        LET img == tree[Folder[n].image]
        IN  /\ Folder[n].style = shared_nadir_style
                <=> (FileNadir(img) \/ ~FileYawRead(img))
            /\ Folder[n].style # shared_nadir_style
                => \E k \in 0..(cardinals - 1) : Folder[n].style = style_dict[k]
            /\ args.type = "N" => Folder[n].style = shared_nadir_style

\* C10 witness: with -t O, an image without XMP data and an image with a
\* pitch but no yaw have nadir-styled placemarks beside a directional one.
C10_Witness ==
    /\ args.type = "O"
    /\ \E a, b, c \in 1..Len(Folder) :
           /\ tree[Folder[a].image].xmp = None
           /\ Folder[a].style = shared_nadir_style
           /\ FilePitchRead(tree[Folder[b].image])
           /\ ~FileYawRead(tree[Folder[b].image])
           /\ Folder[b].style = shared_nadir_style
           /\ Folder[c].style # shared_nadir_style

====
